---- MODULE Spec2Model ----
(***************************************************************************)
(* The mutation and validation engine of the CRM backend (crm/schema.py,   *)
(* crm/models.py): customer creation (single and bulk), product creation, *)
(* order assembly and low-stock replenishment, over a relational store.   *)
(*                                                                         *)
(* Text values are sequences of one-character strings, so that strip(),   *)
(* the case-insensitive lookup and the regular expressions are computed   *)
(* on characters.  Prices are counted in thousandths on input (a float    *)
(* argument) and in hundredths once stored (decimal_places=2).            *)
(***************************************************************************)
EXTENDS Integers, Sequences, FiniteSets, TLC

VARIABLES
    customers,       \* table crm_customer: sequence of rows, in insertion order
    products,        \* table crm_product
    orders,          \* table crm_order (committed rows)
    order_products,  \* table crm_order_products: set of <<order id, product id>>
    order_seq,       \* the order table's id sequence (not rolled back)
    call,            \* the last request handled to completion, with its response
    procs            \* the requests in flight, one per worker

vars == <<customers, products, orders, order_products, order_seq, call, procs>>

store == <<customers, products, orders, order_products, order_seq>>

----------------------------------------------------------------------------
(* Bounds of the model *)

MaxCustomers == 3
MaxProducts == 2
MaxOrders == 2
MaxBulk == 3

----------------------------------------------------------------------------
(* Text helpers *)

None == <<"None">>

Min(S) == CHOOSE x \in S : \A y \in S : x <= y
Max(S) == CHOOSE x \in S : \A y \in S : x >= y

Whitespace == {" ", "\n", "\t"}

Digits == {"0", "1", "2", "3", "4", "5", "6", "7", "8", "9"}

LowerLetters == {"a", "b", "c", "o", "x"}

UpperLetters == {"A", "B", "C", "O", "X"}

ToLower == [c \in UpperLetters |->
              CASE c = "A" -> "a" [] c = "B" -> "b" [] c = "C" -> "c"
                [] c = "O" -> "o" [] c = "X" -> "x"]

\* str.strip(): leading and trailing whitespace removed
strip(s) ==
    LET keep == {i \in 1..Len(s) : s[i] \notin Whitespace}
    IN  IF keep = {} THEN <<>> ELSE SubSeq(s, Min(keep), Max(keep))

\* case folding of the __iexact lookup
lower(s) == [i \in 1..Len(s) |-> IF s[i] \in UpperLetters THEN ToLower[s[i]] ELSE s[i]]

iexact(a, b) == lower(a) = lower(b)

\* Python truthiness of an optional string: None and "" are falsy
truthy(s) == s # None /\ s # <<>>

----------------------------------------------------------------------------
(* Validation helpers *)

\* a dot-separated run of non-empty atoms over the characters `ok`
DotAtoms(s, ok) ==
    /\ Len(s) > 0
    /\ s[1] # "."
    /\ s[Len(s)] # "."
    /\ \A i \in 1..Len(s) : s[i] \in ok \cup {"."}
    /\ \A i \in 1..(Len(s) - 1) : ~(s[i] = "." /\ s[i + 1] = ".")

\* django.core.validators.validate_email: user@domain, split at the last "@";
\* the user part is a dot-atom, the domain is dotted labels ending in a
\* top-level label of two characters or more; both anchored with \Z.
validate_email(s) ==
    LET ats == {i \in 1..Len(s) : s[i] = "@"}
        at == Max(ats)
        user == SubSeq(s, 1, at - 1)
        domain == SubSeq(s, at + 1, Len(s))
        alnum == LowerLetters \cup UpperLetters \cup Digits
        dots == {i \in 1..Len(domain) : domain[i] = "."}
    IN  /\ ats # {}
        /\ DotAtoms(user, alnum \cup {"-", "+"})
        /\ DotAtoms(domain, alnum \cup {"-"})
        /\ dots # {}
        /\ Len(domain) - Max(dots) >= 2
        /\ \A i \in 1..Len(domain) :
              domain[i] = "-" => /\ i > 1 /\ i < Len(domain)
                                 /\ domain[i - 1] # "." /\ domain[i + 1] # "."

\* where a pattern ending in "$" may end: at the end of the text, or just
\* before a newline that ends the text
DollarEnds(s) ==
    {s} \cup (IF Len(s) > 0 /\ s[Len(s)] = "\n" THEN {SubSeq(s, 1, Len(s) - 1)} ELSE {})

AllDigits(s, from, to) == \A i \in from..to : s[i] \in Digits

\* ^\+\d{7,15}$
PatternPlus(s) ==
    \E t \in DollarEnds(s) :
        /\ Len(t) >= 8 /\ Len(t) <= 16
        /\ t[1] = "+"
        /\ AllDigits(t, 2, Len(t))

\* ^\d{3}-\d{3}-\d{4}$
PatternDashed(s) ==
    \E t \in DollarEnds(s) :
        /\ Len(t) = 12
        /\ t[4] = "-" /\ t[8] = "-"
        /\ AllDigits(t, 1, 3) /\ AllDigits(t, 5, 7) /\ AllDigits(t, 9, 12)

\* ^\d{7,15}$
PatternPlain(s) ==
    \E t \in DollarEnds(s) :
        /\ Len(t) >= 7 /\ Len(t) <= 15
        /\ AllDigits(t, 1, Len(t))

validate_phone(phone) ==
    IF ~truthy(phone) THEN TRUE
    ELSE PatternPlus(phone) \/ PatternDashed(phone) \/ PatternPlain(phone)

FieldError(f, m) == [field |-> f, message |-> m]

----------------------------------------------------------------------------
(* Sample inputs *)

N_plain == <<"n">>
N_padded == <<" ", "n", " ">>

E_a == <<"a", "@", "x", ".", "c", "o">>
E_A == <<"A", "@", "X", ".", "C", "O">>
E_b == <<"b", "@", "x", ".", "c", "o">>
E_c == <<"c", "@", "x", ".", "c", "o">>
E_padded == <<" ", "a", "@", "x", ".", "c", "o">>
E_malformed == <<"a", "x", ".", "c", "o">>

P_plain == <<"1", "2", "3", "4", "5", "6", "7">>
P_plus == <<"+", "1", "2", "3", "4", "5", "6", "7">>
P_dashed == <<"1", "2", "3", "-", "4", "5", "6", "-", "7", "8", "9", "0">>
P_short == <<"1", "2", "3", "4", "5", "6">>
P_newline == <<"1", "2", "3", "4", "5", "6", "7", "\n">>

CustomerInput(n, e, p) == [name |-> n, email |-> e, phone |-> p]

\* requests of createCustomer
CustomerSamples ==
    { CustomerInput(N_plain, E_a, None),
      CustomerInput(N_padded, E_A, P_plain),
      CustomerInput(N_plain, E_a, <<>>),
      CustomerInput(N_plain, E_b, P_dashed),
      CustomerInput(N_plain, E_c, P_plus),
      CustomerInput(N_plain, E_padded, None),
      CustomerInput(N_plain, E_malformed, P_short),
      CustomerInput(N_plain, E_b, P_short),
      CustomerInput(N_plain, E_b, P_newline) }

\* items of bulkCreateCustomers
BulkItems ==
    { CustomerInput(N_padded, E_padded, None),
      CustomerInput(N_plain, E_A, P_plain),
      CustomerInput(N_plain, E_c, None),
      CustomerInput(N_plain, E_malformed, None),
      CustomerInput(N_plain, E_b, P_short),
      CustomerInput(N_plain, E_b, P_newline) }

RECURSIVE SeqsUpTo(_, _)
SeqsUpTo(S, n) ==
    IF n = 0 THEN {<<>>}
    ELSE LET shorter == SeqsUpTo(S, n - 1)
         IN  shorter \cup {Append(q, x) : q \in {r \in shorter : Len(r) = n - 1}, x \in S}

----------------------------------------------------------------------------
(* The store: crm/models.py *)

\* Customer.email is unique=True: the column's unique index compares the
\* stored text exactly
UniqueViolation(custs, email) == \E i \in 1..Len(custs) : custs[i].email = email

\* Customer.objects.filter(email__iexact=email).exists()
EmailExists(custs, email) == \E i \in 1..Len(custs) : iexact(custs[i].email, email)

\* the row Customer.objects.create(...) inserts; ids are handed out in order
CustomerRow(custs, name, email, phone) ==
    [id |-> Len(custs) + 1, name |-> name, email |-> email, phone |-> phone]

Idle == [pc |-> "idle"]

\* no request is being handled; `last` remembers what the previous one was
NoCall(last) == [op |-> "none", last |-> last]

\* the worker takes the next request only once the previous response is out
Free == call.op = "none"
Procs == {1, 2}

Init ==
    /\ customers = <<>>
    /\ products = <<>>
    /\ orders = <<>>
    /\ order_products = {}
    /\ order_seq = 0
    /\ call = NoCall([op |-> "none"])
    /\ procs = [p \in Procs |-> Idle]

----------------------------------------------------------------------------
(* createCustomer: CreateCustomer.mutate *)

CreateCustomerErrors(custs, email, phone) ==
       (IF ~validate_email(email)
          THEN <<FieldError("email", "Invalid email format.")>> ELSE <<>>)
    \o (IF EmailExists(custs, email)
          THEN <<FieldError("email", "Email already exists.")>> ELSE <<>>)
    \o (IF truthy(phone) /\ ~validate_phone(phone)
          THEN <<FieldError("phone", "Invalid phone format.")>> ELSE <<>>)

CreateCustomer(name, email, phone) ==
    LET errors == CreateCustomerErrors(customers, email, phone)
        row == CustomerRow(customers, strip(name), strip(email), phone)
        request == [op |-> "createCustomer", name |-> name, email |-> email, phone |-> phone]
    IN  /\ Free
        /\ errors # <<>> \/ Len(customers) < MaxCustomers
        /\ IF errors # <<>>
             THEN /\ call' = request @@ [outcome |-> "response", success |-> FALSE,
                                         errors |-> errors]
                  /\ UNCHANGED customers
             ELSE IF UniqueViolation(customers, row.email)
               THEN /\ call' = request @@ [outcome |-> "IntegrityError"]
                    /\ UNCHANGED customers
               ELSE /\ customers' = Append(customers, row)
                    /\ call' = request @@ [outcome |-> "response", success |-> TRUE,
                                           errors |-> <<>>, customer |-> row]
        /\ UNCHANGED <<products, orders, order_products, order_seq, procs>>

----------------------------------------------------------------------------
(* bulkCreateCustomers: BulkCreateCustomers.mutate *)

\* f"customers[{index}]" with an optional ".email" / ".phone"
ItemField(index, suffix) == <<"customers", index, suffix>>

\* one turn of the loop on item number `index` (counted from 0), from the
\* accumulated [customers, created, errors]
BulkItem(acc, index, c) ==
    LET name == strip(c.name)
        email == strip(c.email)
        phone == c.phone
        fail(f, m) == [acc EXCEPT !.errors = Append(@, FieldError(f, m))]
        row == CustomerRow(acc.customers, name, email, phone)
    IN  IF ~validate_email(email)
          THEN fail(ItemField(index, "email"), "Invalid email format.")
        ELSE IF EmailExists(acc.customers, email)
          THEN fail(ItemField(index, "email"), "Email already exists.")
        ELSE IF truthy(phone) /\ ~validate_phone(phone)
          THEN fail(ItemField(index, "phone"), "Invalid phone format.")
        ELSE IF UniqueViolation(acc.customers, email)
          THEN fail(ItemField(index, ""), "Error: IntegrityError")
        ELSE [acc EXCEPT !.customers = Append(@, row), !.created = Append(@, row)]

RECURSIVE BulkLoop(_, _, _)
BulkLoop(acc, items, k) ==
    IF k > Len(items) THEN acc
    ELSE BulkLoop(BulkItem(acc, k - 1, items[k]), items, k + 1)

BulkCreateCustomers(items) ==
    LET out == BulkLoop([customers |-> customers, created |-> <<>>, errors |-> <<>>],
                        items, 1)
    IN  /\ Free
        /\ Len(out.customers) <= MaxCustomers
        /\ customers' = out.customers
        /\ call' = [op |-> "bulkCreateCustomers", items |-> items,
                    outcome |-> "response", success |-> (Len(out.errors) = 0),
                    errors |-> out.errors, created |-> out.created]
        /\ UNCHANGED <<products, orders, order_products, order_seq, procs>>

\* the response leaves the worker
Deliver ==
    /\ ~Free
    /\ call' = NoCall(IF call.op = "replenish"
                        THEN [op |-> call.op, threshold |-> call.threshold,
                              amount |-> call.amount, before |-> call.before]
                        ELSE [op |-> "other"])
    /\ UNCHANGED <<store, procs>>

NextCustomers ==
    \/ \E c \in CustomerSamples : CreateCustomer(c.name, c.email, c.phone)
    \/ \E items \in SeqsUpTo(BulkItems, MaxBulk) : BulkCreateCustomers(items)
    \/ Deliver

SpecCustomers == Init /\ [][NextCustomers]_vars

----------------------------------------------------------------------------
(* The customer contracts *)

\* the accepted phone shapes: absent or empty, "+" and 7 to 15 digits,
\* 3-3-4 digits with hyphens, or 7 to 15 digits; nothing else
AcceptedPhone(p) ==
    \/ ~truthy(p)
    \/ Len(p) >= 8 /\ Len(p) <= 16 /\ p[1] = "+" /\ AllDigits(p, 2, Len(p))
    \/ /\ Len(p) = 12 /\ p[4] = "-" /\ p[8] = "-"
       /\ AllDigits(p, 1, 3) /\ AllDigits(p, 5, 7) /\ AllDigits(p, 9, 12)
    \/ Len(p) >= 7 /\ Len(p) <= 15 /\ AllDigits(p, 1, Len(p))

SameEmailStored(custs, email) ==
    \E i \in 1..Len(custs) : lower(custs[i].email) = lower(email)

FieldsOf(errors) == {errors[i].field : i \in 1..Len(errors)}

\* the j-th smallest element of a set of numbers
Nth(S, j) == CHOOSE x \in S : Cardinality({y \in S : y < x}) = j - 1

\* C1: a createCustomer request persists exactly one new customer and answers
\* success iff the email is well-formed, the phone is absent, empty or of an
\* accepted shape, and no stored customer has the email up to case; otherwise
\* the customers are unchanged, success is false and the errors name the
\* offending field.
C1_CreateCustomerContract ==
    [][call'.op = "createCustomer" =>
        LET emailOk == validate_email(call'.email)
            phoneOk == AcceptedPhone(call'.phone)
            fresh == ~SameEmailStored(customers, call'.email)
        IN  /\ call'.outcome = "response"
            /\ call'.success <=> (emailOk /\ phoneOk /\ fresh)
            /\ call'.success =>
                 /\ Len(customers') = Len(customers) + 1
                 /\ SubSeq(customers', 1, Len(customers)) = customers
                 /\ call'.errors = <<>>
            /\ ~call'.success =>
                 /\ customers' = customers
                 /\ call'.errors # <<>>
                 /\ (~emailOk \/ ~fresh) => "email" \in FieldsOf(call'.errors)
                 /\ ~phoneOk => "phone" \in FieldsOf(call'.errors)
    ]_vars

\* the same contract with "an accepted shape" read as "what validate_phone
\* lets through"
C1_ContractUpToPhonePattern ==
    [][call'.op = "createCustomer" =>
        LET emailOk == validate_email(call'.email)
            phoneOk == validate_phone(call'.phone)
            fresh == ~SameEmailStored(customers, call'.email)
        IN  /\ call'.outcome = "response"
            /\ call'.success <=> (emailOk /\ phoneOk /\ fresh)
            /\ call'.success =>
                 /\ Len(customers') = Len(customers) + 1
                 /\ SubSeq(customers', 1, Len(customers)) = customers
            /\ ~call'.success => customers' = customers /\ call'.errors # <<>>
    ]_vars

\* the items of a bulk request that are to be persisted: well-formed email,
\* acceptable phone, email new (up to case) to the store and to the earlier
\* accepted items
RECURSIVE AcceptedItems(_, _, _)
AcceptedItems(known, items, k) ==
    IF k > Len(items) THEN {}
    ELSE LET e == strip(items[k].email)
             ok == /\ validate_email(e)
                   /\ AcceptedPhone(items[k].phone)
                   /\ lower(e) \notin known
         IN  (IF ok THEN {k} ELSE {})
               \cup AcceptedItems(IF ok THEN known \cup {lower(e)} ELSE known, items, k + 1)

\* C2: bulkCreateCustomers goes left to right with per-item isolation: exactly
\* the acceptable items are persisted, in order; every other item gives exactly
\* one error tagged with its index; success iff there is no error.
C2_BulkPerItemIsolation ==
    [][call'.op = "bulkCreateCustomers" =>
        LET items == call'.items
            known == {lower(customers[i].email) : i \in 1..Len(customers)}
            acc == AcceptedItems(known, items, 1)
            rej == (1..Len(items)) \ acc
            created == call'.created
            errors == call'.errors
        IN  /\ customers' = customers \o created
            /\ Len(created) = Cardinality(acc)
            /\ \A j \in 1..Len(created) :
                 created[j].email = strip(items[Nth(acc, j)].email)
            /\ Len(errors) = Cardinality(rej)
            /\ \A j \in 1..Len(errors) : errors[j].field[2] = Nth(rej, j) - 1
            /\ call'.success <=> (errors = <<>>)
    ]_vars

----------------------------------------------------------------------------
(* createProduct: CreateProduct.mutate *)

\* price = DecimalField(max_digits=12, decimal_places=2): a price given in
\* thousandths is stored in hundredths, rounded half to even
quantize(mils) ==
    LET q == mils \div 10
        r == mils % 10
    IN  IF r < 5 THEN q
        ELSE IF r > 5 THEN q + 1
        ELSE IF q % 2 = 0 THEN q ELSE q + 1

\* the column declared as a plain IntegerField: no check constraint
StockCheckNone(stock) == TRUE

\* stock = PositiveIntegerField: the column's check constraint
StockCheck(stock) == stock >= 0

ProductRow(prods, name, price, stock) ==
    [id |-> Len(prods) + 1, name |-> name, price |-> quantize(price), stock |-> stock]

CreateProductErrors(name, price, stock) ==
       (IF strip(name) = <<>>
          THEN <<FieldError("name", "Name cannot be empty.")>> ELSE <<>>)
    \o (IF price <= 0
          THEN <<FieldError("price", "Price must be positive.")>> ELSE <<>>)
    \o (IF stock < 0
          THEN <<FieldError("stock", "Stock cannot be negative.")>> ELSE <<>>)

CreateProduct(name, price, stock) ==
    LET errors == CreateProductErrors(name, price, stock)
        row == ProductRow(products, strip(name), price, stock)
        request == [op |-> "createProduct", name |-> name, price |-> price, stock |-> stock]
    IN  /\ Free
        /\ errors # <<>> \/ Len(products) < MaxProducts
        /\ IF errors # <<>>
             THEN /\ call' = request @@ [outcome |-> "response", success |-> FALSE,
                                         errors |-> errors]
                  /\ UNCHANGED products
             ELSE IF ~StockCheck(row.stock)
               THEN /\ call' = request @@ [outcome |-> "IntegrityError"]
                    /\ UNCHANGED products
               ELSE /\ products' = Append(products, row)
                    /\ call' = request @@ [outcome |-> "response", success |-> TRUE,
                                           errors |-> <<>>, product |-> row]
        /\ UNCHANGED <<customers, orders, order_products, order_seq, procs>>

----------------------------------------------------------------------------
(* updateLowStockProducts: UpdateLowStockProducts.mutate *)

ThresholdDefault == 10
RestockDefault == 50

\* stock__lte in place of stock__lt
LowStockInclusive(p, threshold) == p.stock <= threshold

\* Product.objects.filter(stock__lt=threshold)
LowStock(p, threshold) == p.stock < threshold

\* p.stock = restock_amount in place of +=
RestockedSet(stock, amount) == amount

\* p.stock += restock_amount
Restocked(stock, amount) == stock + amount

\* the orders in which the rows of an unordered queryset may come
Orderings(S) ==
    {f \in [1..Cardinality(S) -> S] : \A i, j \in 1..Cardinality(S) : f[i] = f[j] => i = j}

\* the loop over the selected rows, from the k-th of `ord` on: each row is
\* saved on its own; a save the store refuses ends the request
RECURSIVE RestockLoop(_, _, _, _)
RestockLoop(prods, ord, k, amount) ==
    IF k > Len(ord) THEN [products |-> prods, outcome |-> "response"]
    ELSE LET i == ord[k]
             stock == Restocked(prods[i].stock, amount)
         IN  IF ~StockCheck(stock)
               THEN [products |-> prods, outcome |-> "IntegrityError"]
               ELSE RestockLoop([prods EXCEPT ![i].stock = stock], ord, k + 1, amount)

StocksOf(prods) == [i \in 1..Len(prods) |-> prods[i].stock]

UpdateLowStockProducts(threshold, amount) ==
    LET low == {i \in 1..Len(products) : LowStock(products[i], threshold)}
        updated_count == Cardinality(low)
        request == [op |-> "replenish", threshold |-> threshold, amount |-> amount,
                    before |-> StocksOf(products), prev |-> call.last]
    IN  /\ Free
        /\ \E ord \in Orderings(low) :
             LET out == RestockLoop(products, ord, 1, amount)
             IN  /\ products' = out.products
                 /\ call' = IF out.outcome = "response"
                              THEN request @@ [outcome |-> "response",
                                               updated_count |-> updated_count]
                              ELSE request @@ [outcome |-> out.outcome]
        /\ UNCHANGED <<customers, orders, order_products, order_seq, procs>>

----------------------------------------------------------------------------
(* createOrder: CreateOrder.mutate *)

DigitValue ==
    [c \in Digits |->
        CASE c = "0" -> 0 [] c = "1" -> 1 [] c = "2" -> 2 [] c = "3" -> 3 [] c = "4" -> 4
          [] c = "5" -> 5 [] c = "6" -> 6 [] c = "7" -> 7 [] c = "8" -> 8 [] c = "9" -> 9]

\* a graphene.ID arrives as text; the id lookup takes it only if it reads as a
\* number (ValueError otherwise)
IsNumeric(s) == Len(s) > 0 /\ AllDigits(s, 1, Len(s))

RECURSIVE ToInt(_)
ToInt(s) ==
    IF Len(s) = 0 THEN 0
    ELSE 10 * ToInt(SubSeq(s, 1, Len(s) - 1)) + DigitValue[s[Len(s)]]

\* Python's == between a str and an int is False
StrEqualsInt(s, n) == FALSE

RECURSIVE SumPrices(_, _)
SumPrices(prods, ids) ==
    IF ids = {} THEN 0
    ELSE LET i == CHOOSE x \in ids : TRUE
         IN  prods[i].price + SumPrices(prods, ids \ {i})

\* the placeholder total never replaced
OrderTotalPlaceholder(prods, valid) == 0

\* total_amount = sum(p.price for p in valid_products)
OrderTotal(prods, valid) == SumPrices(prods, valid)

\* the part of the handler before the transaction: what it raises, the errors
\* it collects, the customer and the products it resolved
OrderValidation(custs, prods, customer_id, product_ids) ==
    LET requested == {product_ids[k] : k \in 1..Len(product_ids)}
        found == \E i \in 1..Len(custs) : custs[i].id = ToInt(customer_id)
        e1 == IF found THEN <<>>
              ELSE <<FieldError("customer_id", "Invalid customer ID.")>>
        valid == {i \in 1..Len(prods) : \E s \in requested : prods[i].id = ToInt(s)}
        invalid_ids == {s \in requested : ~\E i \in valid : StrEqualsInt(s, prods[i].id)}
        e2 == IF product_ids = <<>>
                THEN <<FieldError("product_ids", "At least one product is required.")>>
              ELSE IF Cardinality(valid) # Len(product_ids)
                THEN <<FieldError("product_ids", <<"Invalid IDs", invalid_ids>>)>>
              ELSE <<>>
    IN  IF ~IsNumeric(customer_id) \/ \E s \in requested : ~IsNumeric(s)
          THEN [outcome |-> "ValueError"]
          ELSE [outcome |-> "checked", errors |-> e1 \o e2,
                customer |-> ToInt(customer_id), valid |-> valid]

OrderRow(id, customer, total) == [id |-> id, customer |-> customer, total_amount |-> total]

CreateOrder(customer_id, product_ids) ==
    LET v == OrderValidation(customers, products, customer_id, product_ids)
        request == [op |-> "createOrder", customer_id |-> customer_id,
                    product_ids |-> product_ids]
        id == order_seq + 1
        order == OrderRow(id, v.customer, OrderTotal(products, v.valid))
    IN  /\ Free
        /\ IF v.outcome = "ValueError"
             THEN /\ call' = request @@ [outcome |-> "ValueError"]
                  /\ UNCHANGED <<orders, order_products, order_seq>>
           ELSE IF v.errors # <<>>
             THEN /\ call' = request @@ [outcome |-> "response", success |-> FALSE,
                                         errors |-> v.errors]
                  /\ UNCHANGED <<orders, order_products, order_seq>>
           ELSE /\ Len(orders) < MaxOrders
                /\ orders' = Append(orders, order)
                /\ order_products' = order_products \cup {<<id, products[i].id>> : i \in v.valid}
                /\ order_seq' = id
                /\ call' = request @@ [outcome |-> "response", success |-> TRUE,
                                       errors |-> <<>>, order |-> order]
        /\ UNCHANGED <<customers, products, procs>>

----------------------------------------------------------------------------
(* Sequential specifications: one worker, one request at a time *)

ProductNames == {<<"p">>, <<" ">>}
PriceInputs == {-1000, 0, 4, 10000, 15000}
WholePriceInputs == {p \in PriceInputs : p % 1000 = 0}
StockInputs == {-1, 0, 5, 20}
ThresholdInputs == {-5, 0, ThresholdDefault}
AmountInputs == {-5, 0, RestockDefault}

OrderRequest(c, ids) == [customer_id |-> c, product_ids |-> ids]

\* requests of createOrder: ids that resolve, ids of no row ("9"), an id that
\* is not a number ("x"), no id, the same id twice
OrderRequests ==
    { OrderRequest(<<"1">>, << <<"1">> >>),
      OrderRequest(<<"1">>, << <<"1">>, <<"2">> >>),
      OrderRequest(<<"1">>, << <<"2">>, <<"1">> >>),
      OrderRequest(<<"1">>, <<>>),
      OrderRequest(<<"9">>, <<>>),
      OrderRequest(<<"9">>, << <<"1">> >>),
      OrderRequest(<<"1">>, << <<"9">> >>),
      OrderRequest(<<"1">>, << <<"1">>, <<"9">> >>),
      OrderRequest(<<"9">>, << <<"9">> >>),
      OrderRequest(<<"1">>, << <<"1">>, <<"1">> >>),
      OrderRequest(<<"x">>, << <<"1">> >>),
      OrderRequest(<<"1">>, << <<"x">> >>) }

\* products and replenishment, every argument a whole number
NextStock ==
    \/ \E n \in ProductNames, p \in WholePriceInputs, k \in StockInputs : CreateProduct(n, p, k)
    \/ \E t \in ThresholdInputs, a \in AmountInputs : UpdateLowStockProducts(t, a)
    \/ Deliver

SpecStock == Init /\ [][NextStock]_vars

\* customers, products and orders
NextOrders ==
    \/ CreateCustomer(N_plain, E_a, None)
    \/ \E p \in PriceInputs : CreateProduct(<<"p">>, p, 0)
    \/ \E r \in OrderRequests : CreateOrder(r.customer_id, r.product_ids)
    \/ Deliver

SpecOrders == Init /\ [][NextOrders]_vars

----------------------------------------------------------------------------
(* The order contracts *)

RequestedIds(ids) == {ToInt(ids[k]) : k \in 1..Len(ids)}

PriceOfId(prods, pid) == prods[CHOOSE i \in 1..Len(prods) : prods[i].id = pid].price

RECURSIVE TotalOfIds(_, _)
TotalOfIds(prods, pids) ==
    IF pids = {} THEN 0
    ELSE LET pid == CHOOSE x \in pids : TRUE
         IN  PriceOfId(prods, pid) + TotalOfIds(prods, pids \ {pid})

ProductsOf(pairs, oid) == {pr[2] : pr \in {q \in pairs : q[1] = oid}}

\* C3: a successful createOrder persists exactly one order, owned by the
\* resolved customer, associated with exactly the requested products, whose
\* total_amount is the sum of their current prices, and returns that order.
C3_SuccessfulOrder ==
    [][(call'.op = "createOrder" /\ call'.outcome = "response" /\ call'.success) =>
        LET req == RequestedIds(call'.product_ids)
            new == orders'[Len(orders')]
        IN  /\ Len(orders') = Len(orders) + 1
            /\ SubSeq(orders', 1, Len(orders)) = orders
            /\ \A i \in 1..Len(orders) : orders[i].id # new.id
            /\ new.customer = ToInt(call'.customer_id)
            /\ \E i \in 1..Len(customers) : customers[i].id = new.customer
            /\ \A pid \in req : \E i \in 1..Len(products) : products[i].id = pid
            /\ order_products \subseteq order_products'
            /\ order_products' \ order_products = {<<new.id, pid>> : pid \in req}
            /\ new.total_amount = TotalOfIds(products, req)
            /\ call'.order = new
    ]_vars

\* an order of the products priced 10.00 and 15.00 stands at 25.00
C3_Witness ==
    /\ call.op = "createOrder" /\ call.outcome = "response" /\ call.success
    /\ Len(orders) > 0
    /\ call.order = orders[Len(orders)]
    /\ call.order.total_amount = 2500
    /\ LET ps == ProductsOf(order_products, call.order.id)
       IN  /\ Cardinality(ps) = 2
           /\ {PriceOfId(products, pid) : pid \in ps} = {1000, 1500}

Resolves(s, table) == IsNumeric(s) /\ \E i \in 1..Len(table) : table[i].id = ToInt(s)

\* C4: createOrder called with a customer id that does not resolve, a product
\* id that does not resolve, or no product id, writes nothing and answers
\* success=false with a field error on customer_id and/or product_ids.
C4_RejectedOrderWritesNothing ==
    [][call'.op = "createOrder" =>
        LET ids == call'.product_ids
            badCustomer == ~Resolves(call'.customer_id, customers)
            badProduct == \E k \in 1..Len(ids) : ~Resolves(ids[k], products)
            empty == ids = <<>>
        IN  (badCustomer \/ badProduct \/ empty) =>
              /\ orders' = orders
              /\ order_products' = order_products
              /\ call'.outcome = "response"
              /\ ~call'.success
              /\ badCustomer => "customer_id" \in FieldsOf(call'.errors)
              /\ (badProduct \/ empty) => "product_ids" \in FieldsOf(call'.errors)
    ]_vars

\* the same, for requests whose ids all read as numbers
C4_RejectedNumericOrderWritesNothing ==
    [][(/\ call'.op = "createOrder"
        /\ IsNumeric(call'.customer_id)
        /\ \A k \in 1..Len(call'.product_ids) : IsNumeric(call'.product_ids[k])) =>
        LET ids == call'.product_ids
            badCustomer == ~Resolves(call'.customer_id, customers)
            badProduct == \E k \in 1..Len(ids) : ~Resolves(ids[k], products)
            empty == ids = <<>>
        IN  (badCustomer \/ badProduct \/ empty) =>
              /\ orders' = orders
              /\ order_products' = order_products
              /\ call'.outcome = "response"
              /\ ~call'.success
              /\ badCustomer => "customer_id" \in FieldsOf(call'.errors)
              /\ (badProduct \/ empty) => "product_ids" \in FieldsOf(call'.errors)
    ]_vars

----------------------------------------------------------------------------
(* The replenishment contracts *)

Below(prods, threshold) == {i \in 1..Len(prods) : prods[i].stock < threshold}

RaisedBy(prods, threshold, amount) ==
    [i \in 1..Len(prods) |->
        IF prods[i].stock < threshold
          THEN [prods[i] EXCEPT !.stock = prods[i].stock + amount]
          ELSE prods[i]]

TwiceInARow ==
    /\ call.op = "replenish" /\ call.outcome = "response"
    /\ call.threshold = 10 /\ call.amount = 50
    /\ call.prev.op = "replenish"
    /\ call.prev.threshold = 10 /\ call.prev.amount = 50

\* C6 as claimed: after replenish(10, 50) twice in a row a product that began
\* at stock 5 stands at 105, and one that began at 20 is untouched.
C6_TwiceGives105 ==
    TwiceInARow =>
        \A i \in 1..Len(products) :
            /\ call.prev.before[i] = 5 => products[i].stock = 105
            /\ call.prev.before[i] = 20 => products[i].stock = 20

\* C6 as amended: the product that began at 5 stands at 55 after the first
\* call and still at 55 after the second; the one that began at 20 is untouched.
C6_TwiceGives55 ==
    TwiceInARow =>
        \A i \in 1..Len(products) :
            /\ call.prev.before[i] = 5 => call.before[i] = 55 /\ products[i].stock = 55
            /\ call.prev.before[i] = 20 => call.before[i] = 20 /\ products[i].stock = 20

C6_Witness ==
    /\ TwiceInARow
    /\ \E i, j \in 1..Len(products) :
         /\ call.prev.before[i] = 5 /\ products[i].stock = 55
         /\ call.prev.before[j] = 20 /\ products[j].stock = 20

\* C10: after any createProduct and replenish calls with whole-number
\* arguments, zero and negative ones included, every stored product has
\* price > 0 and stock >= 0.
C10_PriceAndStockInvariant ==
    \A i \in 1..Len(products) : products[i].price > 0 /\ products[i].stock >= 0

\* a replenish with a negative amount has met a product it would take below 0
C10_Witness ==
    /\ call.op = "replenish"
    /\ call.amount < 0
    /\ \E i \in 1..Len(products) :
         /\ call.before[i] < call.threshold
         /\ call.before[i] + call.amount < 0
         /\ products[i].stock = call.before[i]

----------------------------------------------------------------------------
(* Concurrent requests: each worker runs one handler, query by query *)

Done(outcome, fields) == [pc |-> "done", outcome |-> outcome] @@ fields

Set(p, rec) == procs' = [procs EXCEPT ![p] = rec]

\* createCustomer up to its return or its insert: the validations and the
\* exists() query
StartCreateCustomer(p, c) ==
    LET errors == CreateCustomerErrors(customers, c.email, c.phone)
    IN  /\ procs[p].pc = "idle"
        /\ IF errors # <<>>
             THEN Set(p, Done("response", [op |-> "createCustomer", request |-> c,
                                           success |-> FALSE, errors |-> errors]))
             ELSE Set(p, [pc |-> "insert", request |-> c])
        /\ UNCHANGED <<store, call>>

\* Customer.objects.create(...): nothing catches what the store raises
InsertCustomer(p) ==
    LET c == procs[p].request
        row == CustomerRow(customers, strip(c.name), strip(c.email), c.phone)
    IN  /\ procs[p].pc = "insert"
        /\ IF UniqueViolation(customers, row.email)
             THEN /\ Set(p, Done("IntegrityError", [op |-> "createCustomer", request |-> c]))
                  /\ UNCHANGED customers
             ELSE /\ Len(customers) < MaxCustomers
                  /\ customers' = Append(customers, row)
                  /\ Set(p, Done("response", [op |-> "createCustomer", request |-> c,
                                              success |-> TRUE, errors |-> <<>>]))
        /\ UNCHANGED <<products, orders, order_products, order_seq, call>>

StartBulk(p, items) ==
    /\ procs[p].pc = "idle"
    /\ Set(p, [pc |-> "bulk_check", items |-> items, k |-> 1,
               created |-> <<>>, errors |-> <<>>])
    /\ UNCHANGED <<store, call>>

\* the loop's turn on item k up to `continue` or to the insert
BulkCheck(p) ==
    LET me == procs[p]
        index == me.k - 1
        c == me.items[me.k]
        email == strip(c.email)
        fail(f, m) == [me EXCEPT !.errors = Append(@, FieldError(f, m)), !.k = @ + 1]
    IN  /\ me.pc = "bulk_check"
        /\ me.k <= Len(me.items)
        /\ IF ~validate_email(email)
             THEN Set(p, fail(ItemField(index, "email"), "Invalid email format."))
           ELSE IF EmailExists(customers, email)
             THEN Set(p, fail(ItemField(index, "email"), "Email already exists."))
           ELSE IF truthy(c.phone) /\ ~validate_phone(c.phone)
             THEN Set(p, fail(ItemField(index, "phone"), "Invalid phone format."))
           ELSE Set(p, [me EXCEPT !.pc = "bulk_insert"])
        /\ UNCHANGED <<store, call>>

\* try: with transaction.atomic(): create ... except Exception: error
BulkInsert(p) ==
    LET me == procs[p]
        c == me.items[me.k]
        row == CustomerRow(customers, strip(c.name), strip(c.email), c.phone)
    IN  /\ me.pc = "bulk_insert"
        /\ IF UniqueViolation(customers, row.email)
             THEN /\ Set(p, [me EXCEPT !.pc = "bulk_check", !.k = @ + 1,
                                !.errors = Append(@, FieldError(ItemField(me.k - 1, ""),
                                                                "Error: IntegrityError"))])
                  /\ UNCHANGED customers
             ELSE /\ Len(customers) < MaxCustomers
                  /\ customers' = Append(customers, row)
                  /\ Set(p, [me EXCEPT !.pc = "bulk_check", !.k = @ + 1,
                                !.created = Append(@, row)])
        /\ UNCHANGED <<products, orders, order_products, order_seq, call>>

BulkReturn(p) ==
    LET me == procs[p]
    IN  /\ me.pc = "bulk_check"
        /\ me.k > Len(me.items)
        /\ Set(p, Done("response", [op |-> "bulkCreateCustomers", items |-> me.items,
                                    success |-> (Len(me.errors) = 0),
                                    errors |-> me.errors, created |-> me.created]))
        /\ UNCHANGED <<store, call>>

\* the worker is given back
Release(p) ==
    /\ procs[p].pc = "done"
    /\ Set(p, Idle)
    /\ UNCHANGED <<store, call>>

MaxConcBulk == 2
ConcSamples ==
    { CustomerInput(N_plain, E_a, None),
      CustomerInput(N_plain, E_A, None),
      CustomerInput(N_plain, E_b, P_short) }

NextConcCustomers ==
    \E p \in Procs :
        \/ \E c \in ConcSamples : StartCreateCustomer(p, c)
        \/ InsertCustomer(p)
        \/ \E items \in SeqsUpTo(ConcSamples, MaxConcBulk) : StartBulk(p, items)
        \/ BulkCheck(p)
        \/ BulkInsert(p)
        \/ BulkReturn(p)
        \/ Release(p)

SpecConcCustomers == Init /\ [][NextConcCustomers]_vars

\* C7: whatever the interleaving of concurrent createCustomer and
\* bulkCreateCustomers requests, no two stored customers have emails equal up
\* to case.
C7_NoTwoCustomersShareEmail ==
    \A i, j \in 1..Len(customers) :
        i # j => lower(customers[i].email) # lower(customers[j].email)

\* C9: a duplicate-email conflict never leaves a customer-creating mutation as
\* an unhandled failure: the request that loses the race still ends with a
\* response whose error list reports the conflict.
C9_ConflictNeverEscapes ==
    \A p \in Procs : procs[p].pc = "done" => procs[p].outcome = "response"

\* the part of C9 about bulk items: a bulk request always ends with a response
C9_BulkConflictIsReported ==
    \A p \in Procs :
        (procs[p].pc = "done" /\ procs[p].op = "bulkCreateCustomers") =>
            procs[p].outcome = "response"

----------------------------------------------------------------------------
(* createOrder, query by query, its writes inside transaction.atomic() *)

MaxOrderAttempts == 2

\* createOrder up to its return or to the transaction: the customer lookup
\* and the product query
StartCreateOrder(p, customer_id, product_ids) ==
    LET v == OrderValidation(customers, products, customer_id, product_ids)
        request == [op |-> "createOrder", customer_id |-> customer_id,
                    product_ids |-> product_ids]
    IN  /\ procs[p].pc = "idle"
        /\ IF v.outcome = "ValueError"
             THEN Set(p, Done("ValueError", request))
           ELSE IF v.errors # <<>>
             THEN Set(p, Done("response", request @@ [success |-> FALSE,
                                                      errors |-> v.errors]))
           ELSE Set(p, [pc |-> "tx_create", request |-> request,
                        customer |-> v.customer, valid |-> v.valid,
                        valid_products |-> products])
        /\ UNCHANGED <<store, call>>

\* Order.objects.create(..., total_amount=0.00) with the row committed at
\* once, as it would be outside transaction.atomic()
TxCreateAutocommit(p) ==
    LET me == procs[p]
        id == order_seq + 1
        row == OrderRow(id, me.customer, 0)
    IN  /\ me.pc = "tx_create"
        /\ order_seq < MaxOrderAttempts
        /\ order_seq' = id
        /\ orders' = Append(orders, row)
        /\ Set(p, [me EXCEPT !.pc = "tx_products"] @@ [tx |-> [order |-> row, products |-> {}]])
        /\ UNCHANGED <<customers, products, order_products, call>>

\* with transaction.atomic(): Order.objects.create(..., total_amount=0.00):
\* the row is written in the worker's transaction, unseen by the others
TxCreate(p) ==
    LET me == procs[p]
        id == order_seq + 1
        row == OrderRow(id, me.customer, 0)
    IN  /\ me.pc = "tx_create"
        /\ order_seq < MaxOrderAttempts
        /\ order_seq' = id
        /\ Set(p, [me EXCEPT !.pc = "tx_products"] @@ [tx |-> [order |-> row, products |-> {}]])
        /\ UNCHANGED <<customers, products, orders, order_products, call>>

\* order.products.set(valid_products)
TxSetProducts(p) ==
    LET me == procs[p]
    IN  /\ me.pc = "tx_products"
        /\ Set(p, [me EXCEPT !.pc = "tx_total",
                             !.tx.products = {me.valid_products[i].id : i \in me.valid}])
        /\ UNCHANGED <<store, call>>

\* order.total_amount = sum(...); order.save()
TxSaveTotal(p) ==
    LET me == procs[p]
    IN  /\ me.pc = "tx_total"
        /\ Set(p, [me EXCEPT !.pc = "tx_commit",
                             !.tx.order.total_amount = OrderTotal(me.valid_products, me.valid)])
        /\ UNCHANGED <<store, call>>

\* the end of the atomic block: the transaction's writes become visible
TxCommit(p) ==
    LET me == procs[p]
    IN  /\ me.pc = "tx_commit"
        /\ orders' = Append(orders, me.tx.order)
        /\ order_products' = order_products \cup {<<me.tx.order.id, pid>> : pid \in me.tx.products}
        /\ Set(p, Done("response", me.request @@ [success |-> TRUE, errors |-> <<>>,
                                                   order |-> me.tx.order]))
        /\ UNCHANGED <<customers, products, order_seq, call>>

InTransaction(p) == procs[p].pc \in {"tx_products", "tx_total", "tx_commit"}

\* the worker dies inside the atomic block: the transaction is rolled back
Interrupt(p) ==
    /\ InTransaction(p)
    /\ Set(p, Done("interrupted", procs[p].request))
    /\ UNCHANGED <<store, call>>

ConcOrderRequests ==
    { OrderRequest(<<"1">>, << <<"1">> >>),
      OrderRequest(<<"1">>, << <<"1">>, <<"2">> >>),
      OrderRequest(<<"1">>, <<>>),
      OrderRequest(<<"9">>, << <<"2">> >>) }

NextConcOrders ==
    \/ CreateCustomer(N_plain, E_a, None)
    \/ CreateProduct(<<"p">>, 10000, 0)
    \/ Deliver
    \/ \E p \in Procs :
        \/ \E r \in ConcOrderRequests : StartCreateOrder(p, r.customer_id, r.product_ids)
        \/ TxCreate(p)
        \/ TxSetProducts(p)
        \/ TxSaveTotal(p)
        \/ TxCommit(p)
        \/ Interrupt(p)
        \/ Release(p)

SpecConcOrders == Init /\ [][NextConcOrders]_vars

\* C8: in every state another operation can observe, every stored order has
\* at least one associated product and a total_amount equal to the sum of the
\* prices of its products; no order with the placeholder total or without
\* associations is ever visible.
C8_OrdersAreAllOrNothing ==
    \A i \in 1..Len(orders) :
        LET ps == ProductsOf(order_products, orders[i].id)
        IN  /\ ps # {}
            /\ orders[i].total_amount = TotalOfIds(products, ps)
            /\ orders[i].total_amount # 0

\* one order is committed while another createOrder, inside its transaction,
\* holds an order row with its products and the placeholder total
C8_Witness ==
    /\ Len(orders) >= 1
    /\ \E q \in Procs :
         /\ procs[q].pc = "tx_total"
         /\ procs[q].tx.order.total_amount = 0
         /\ procs[q].tx.products # {}

----------------------------------------------------------------------------
(* The factories on their own: createCustomer and createProduct *)

\* one worker serving createCustomer and createProduct, the price of a
\* product given with or without a fraction
NextFactories ==
    \/ \E c \in CustomerSamples : CreateCustomer(c.name, c.email, c.phone)
    \/ \E n \in ProductNames, p \in PriceInputs, k \in StockInputs : CreateProduct(n, p, k)
    \/ Deliver

SpecFactories == Init /\ [][NextFactories]_vars

\* the rules a createProduct request violates
ProductRulesViolated(name, price, stock) ==
         (IF strip(name) = <<>> THEN {"name"} ELSE {})
    \cup (IF price <= 0 THEN {"price"} ELSE {})
    \cup (IF stock < 0 THEN {"stock"} ELSE {})

\* the rules a createCustomer request violates against the stored customers,
\* a phone being well-formed when it is absent, empty or of an accepted shape
CustomerRulesViolated(custs, email, phone) ==
         (IF ~validate_email(email) THEN {"email malformed"} ELSE {})
    \cup (IF SameEmailStored(custs, email) THEN {"email exists"} ELSE {})
    \cup (IF ~AcceptedPhone(phone) THEN {"phone malformed"} ELSE {})

\* the same, a phone being well-formed when validate_phone lets it through
CustomerRulesViolatedUpToPattern(custs, email, phone) ==
         (IF ~validate_email(email) THEN {"email malformed"} ELSE {})
    \cup (IF SameEmailStored(custs, email) THEN {"email exists"} ELSE {})
    \cup (IF truthy(phone) /\ ~validate_phone(phone) THEN {"phone malformed"} ELSE {})

\* the rule a field error of createCustomer reports
RuleOf(e) ==
    IF e.field = "phone" THEN "phone malformed"
    ELSE IF e.field = "email" /\ e.message = "Email already exists." THEN "email exists"
    ELSE IF e.field = "email" THEN "email malformed"
    ELSE "other"

\* the response carries one error for each member of `rules` and no other
OneErrorPerRule(errors, rules, ruleOf(_)) ==
    /\ Len(errors) = Cardinality(rules)
    /\ {ruleOf(errors[i]) : i \in 1..Len(errors)} = rules

FieldOf(e) == e.field

\* the table gained exactly one row
OneRowAdded(before, after) ==
    /\ Len(after) = Len(before) + 1
    /\ SubSeq(after, 1, Len(before)) = before

\* C11: createProduct answers with exactly one field error for each violated
\* rule among {name empty after trimming, price <= 0, stock < 0}, createCustomer
\* with one for each among {malformed email, email already exists, malformed
\* phone}, all in the one response; the entity is persisted if and only if that
\* error list is empty.
C11_CollectAllValidation ==
    [][/\ call'.op = "createProduct" =>
            LET rules == ProductRulesViolated(call'.name, call'.price, call'.stock)
            IN  /\ call'.outcome = "response"
                /\ OneErrorPerRule(call'.errors, rules, FieldOf)
                /\ call'.success <=> (call'.errors = <<>>)
                /\ IF call'.errors = <<>>
                     THEN OneRowAdded(products, products')
                     ELSE products' = products
       /\ call'.op = "createCustomer" =>
            LET rules == CustomerRulesViolated(customers, call'.email, call'.phone)
            IN  /\ call'.outcome = "response"
                /\ OneErrorPerRule(call'.errors, rules, RuleOf)
                /\ call'.success <=> (call'.errors = <<>>)
                /\ IF call'.errors = <<>>
                     THEN OneRowAdded(customers, customers')
                     ELSE customers' = customers
    ]_vars

\* the same contract with "malformed phone" read as "what validate_phone
\* turns down"
C11_CollectAllUpToPhonePattern ==
    [][/\ call'.op = "createProduct" =>
            LET rules == ProductRulesViolated(call'.name, call'.price, call'.stock)
            IN  /\ call'.outcome = "response"
                /\ OneErrorPerRule(call'.errors, rules, FieldOf)
                /\ call'.success <=> (call'.errors = <<>>)
                /\ IF call'.errors = <<>>
                     THEN OneRowAdded(products, products')
                     ELSE products' = products
       /\ call'.op = "createCustomer" =>
            LET rules == CustomerRulesViolatedUpToPattern(customers, call'.email,
                                                          call'.phone)
            IN  /\ call'.outcome = "response"
                /\ OneErrorPerRule(call'.errors, rules, RuleOf)
                /\ call'.success <=> (call'.errors = <<>>)
                /\ IF call'.errors = <<>>
                     THEN OneRowAdded(customers, customers')
                     ELSE customers' = customers
    ]_vars

\* requests that break several rules at once have been answered: a product
\* with all three errors, a customer with two
C11_SeveralErrorsAtOnce ==
    \/ call.op = "createProduct" /\ call.outcome = "response" /\ Len(call.errors) = 3
    \/ call.op = "createCustomer" /\ call.outcome = "response" /\ Len(call.errors) = 2

----------------------------------------------------------------------------
(* The 'invalid IDs' error of createOrder *)

\* the requested ids that resolve to no product
Unresolved(ids, prods) == {s \in {ids[k] : k \in 1..Len(ids)} : ~Resolves(s, prods)}

\* the id sets listed by the product_ids errors of a response to a request
\* with at least one product id
InvalidIdsListed(errors) ==
    {errors[i].message[2] : i \in {j \in 1..Len(errors) : errors[j].field = "product_ids"}}

\* a createOrder request with at least one product id, every id a number
NumericOrderRequest(c) ==
    /\ c.op = "createOrder"
    /\ c.product_ids # <<>>
    /\ IsNumeric(c.customer_id)
    /\ \A k \in 1..Len(c.product_ids) : IsNumeric(c.product_ids[k])

\* C12: for a non-empty product id list, createOrder returns the product_ids
\* 'invalid IDs' error iff a requested id resolves to no product, the message
\* then lists exactly the unresolved ids, and a request whose ids all resolve
\* (one of them repeated or not) is not rejected.
C12_InvalidIdsExactly ==
    [][NumericOrderRequest(call') =>
        LET unresolved == Unresolved(call'.product_ids, products)
            listed == InvalidIdsListed(call'.errors)
        IN  /\ call'.outcome = "response"
            /\ (listed # {}) <=> (unresolved # {})
            /\ listed # {} => listed = {unresolved}
            /\ (unresolved = {} /\ Resolves(call'.customer_id, customers)) =>
                 call'.success
    ]_vars

\* the half of it that stands: a requested id that resolves to no product is
\* answered with a product_ids error, the unresolved ids are among those
\* listed, and nothing is written
C12_UnresolvedIdIsReported ==
    [][NumericOrderRequest(call') =>
        LET unresolved == Unresolved(call'.product_ids, products)
            listed == InvalidIdsListed(call'.errors)
        IN  unresolved # {} =>
              /\ call'.outcome = "response"
              /\ ~call'.success
              /\ Cardinality(listed) = 1
              /\ \A l \in listed : unresolved \subseteq l
              /\ orders' = orders
              /\ order_products' = order_products
    ]_vars

\* the same existing id asked for twice has been turned down as invalid
C12_RepeatedIdRejected ==
    /\ call.op = "createOrder" /\ call.outcome = "response" /\ ~call.success
    /\ call.product_ids = << <<"1">>, <<"1">> >>
    /\ Len(products) >= 1
    /\ InvalidIdsListed(call.errors) = {{<<"1">>}}

\* an id that resolves has been listed as invalid next to one that does not
C12_ResolvedIdListed ==
    /\ call.op = "createOrder" /\ call.outcome = "response" /\ ~call.success
    /\ call.product_ids = << <<"1">>, <<"9">> >>
    /\ Len(products) >= 1
    /\ InvalidIdsListed(call.errors) = {{<<"1">>, <<"9">>}}

====
